---------------------------- MODULE Spec2Model ----------------------------
(***************************************************************************)
(* Model of src/main.rs: CPU linear blend skinning of a two-joint mesh and *)
(* the AABB reduction over the skinned positions, run once per frame by    *)
(* the systems registered in main().                                       *)
(*                                                                         *)
(* Arithmetic is exact fixed point.  Lengths of the scene are counted in   *)
(* halves, joint weights in quarters (the weight 1.0 is WeightOne),       *)
(* so a blended world-space coordinate is counted in eighths.  The centre  *)
(* of a box is (min+max)/2 and is stored doubled (fields ending in 2) so   *)
(* that it stays an integer.  Rounding of f32 is not modelled; f32::MAX    *)
(* and f32::MIN are the two ends of the modelled coordinate range.         *)
(***************************************************************************)
EXTENDS Integers, Sequences, FiniteSets, TLC

VARIABLES
    meshes,              \* the Handle<Mesh> of each skinned mesh entity, in query order
    local,               \* Transform.rotation of each joint (quarter turns about Z)
    global,              \* GlobalTransform matrix of each joint
    has_global,          \* joints whose GlobalTransform the joint query can fetch
    ran,                 \* systems of the Update stage that already ran this frame
    debug_vertex_cubes,  \* Transform.translation of the DebugVertex cubes
    aabb_debug_cube,     \* Transform of the AABBDebugCube
    panicked,            \* "no", or the panic that terminated the process
    log,                 \* per mesh, what the last skinned_vertex_locations did
    read_global,         \* the world transforms of the joints the last run read
    history,             \* the last write to the debug cubes, and what happened once
    values,              \* input of compute_aabb
    result,              \* output of compute_aabb
    vertex,              \* input of the per-vertex blend
    blended              \* output of the per-vertex blend

frame_vars == <<meshes, local, global, has_global, ran, debug_vertex_cubes,
                aabb_debug_cube, panicked, log, read_global, history>>
aabb_vars == <<values, result>>
blend_vars == <<vertex, blended>>
vars == <<frame_vars, aabb_vars, blend_vars>>

---------------------------------------------------------------------------
(* Bounds of the model. *)

\* longest position sequence handed to compute_aabb on its own
MaxLen == 2
\* largest number of skinned mesh entities in the world
MaxMeshes == 2

---------------------------------------------------------------------------
(* Fixed-point units and f32 limits. *)

\* the weight 1.0, in quarters
WeightOne == 4
\* std::f32::MAX, the upper end of the modelled coordinate range
F32_MAX == 1000
\* std::f32::MIN
F32_MIN == -F32_MAX
VEC3_MIN == <<F32_MIN, F32_MIN, F32_MIN>>
VEC3_MAX == <<F32_MAX, F32_MAX, F32_MAX>>

---------------------------------------------------------------------------
(* glam: Vec3, Vec4 and column-major Mat4. *)

Min2(a, b) == IF a <= b THEN a ELSE b
Max2(a, b) == IF a >= b THEN a ELSE b
Vec3MinOf(a, b) == <<Min2(a[1], b[1]), Min2(a[2], b[2]), Min2(a[3], b[3])>>
Vec3MaxOf(a, b) == <<Max2(a[1], b[1]), Max2(a[2], b[2]), Max2(a[3], b[3])>>
Vec3Add(a, b) == <<a[1] + b[1], a[2] + b[2], a[3] + b[3]>>
Vec3Sub(a, b) == <<a[1] - b[1], a[2] - b[2], a[3] - b[3]>>
Vec3Scale(k, a) == <<k * a[1], k * a[2], k * a[3]>>
Vec4Add(a, b) == <<a[1] + b[1], a[2] + b[2], a[3] + b[3], a[4] + b[4]>>
Vec4Scale(k, a) == <<k * a[1], k * a[2], k * a[3], k * a[4]>>

Mat4Identity == << <<1, 0, 0, 0>>, <<0, 1, 0, 0>>, <<0, 0, 1, 0>>, <<0, 0, 0, 1>> >>
Mat4Add(a, b) ==
    <<Vec4Add(a[1], b[1]), Vec4Add(a[2], b[2]), Vec4Add(a[3], b[3]), Vec4Add(a[4], b[4])>>
Mat4Scale(k, a) ==
    <<Vec4Scale(k, a[1]), Vec4Scale(k, a[2]), Vec4Scale(k, a[3]), Vec4Scale(k, a[4])>>
\* a * b: column c of the product is a applied to column c of b
Mat4MulVec4(a, v) ==
    Vec4Add(Vec4Add(Vec4Scale(v[1], a[1]), Vec4Scale(v[2], a[2])),
            Vec4Add(Vec4Scale(v[3], a[3]), Vec4Scale(v[4], a[4])))
Mat4Mul(a, b) ==
    <<Mat4MulVec4(a, b[1]), Mat4MulVec4(a, b[2]), Mat4MulVec4(a, b[3]), Mat4MulVec4(a, b[4])>>
from_translation(t) ==
    << <<1, 0, 0, 0>>, <<0, 1, 0, 0>>, <<0, 0, 1, 0>>, <<t[1], t[2], t[3], 1>> >>
\* Quat::from_axis_angle(Vec3::Z, q * PI/2) as a matrix, q in -1..1
from_rotation_z(q) ==
    LET c == IF q = 0 THEN 1 ELSE 0
        s == q
    IN << <<c, s, 0, 0>>, <<-s, c, 0, 0>>, <<0, 0, 1, 0>>, <<0, 0, 0, 1>> >>

\* Mat4::transform_vector3: the translation column is left out
transform_vector3(m, p) ==
    LET v == Vec4Add(Vec4Add(Vec4Scale(p[1], m[1]), Vec4Scale(p[2], m[2])),
                     Vec4Scale(p[3], m[3]))
    IN <<v[1], v[2], v[3]>>
\* Mat4::transform_point3: the matrix is taken to be affine, no division by w
transform_point3(m, p) ==
    LET v == Vec4Add(Vec4Add(Vec4Scale(p[1], m[1]), Vec4Scale(p[2], m[2])),
                     Vec4Add(Vec4Scale(p[3], m[3]), m[4]))
    IN <<v[1], v[2], v[3]>>

---------------------------------------------------------------------------
(* compute_aabb, main.rs 278-296. *)

None == [tag |-> "none"]
Some(x) == [tag |-> "some", val |-> x]
NotRun == [tag |-> "not_run"]

\* the two corners taken for a centre and half extents (Aabb { center, half_extents })
from_min_max_as_center(minimum, maximum) ==
    [center2 |-> Vec3Scale(2, minimum), half_extents2 |-> Vec3Scale(2, maximum)]

\* Aabb::from_min_max: center = 0.5 * (max + min), half_extents = 0.5 * (max - min)
from_min_max(minimum, maximum) ==
    [center2 |-> Vec3Add(maximum, minimum),
     half_extents2 |-> Vec3Sub(maximum, minimum)]

RECURSIVE reduce_last(_, _)
\* a reduction that keeps the last point instead of the extremes
reduce_last(acc, vals) ==
    IF vals = <<>> THEN acc
    ELSE reduce_last(
            [minimum |-> Vec3MinOf(acc.minimum, Head(vals)),
             maximum |-> Head(vals)],
            Tail(vals))

RECURSIVE reduce_min_max(_, _)
\* the loop of compute_aabb: the running pair (minimum, maximum) after `vals`
reduce_min_max(acc, vals) ==
    IF vals = <<>> THEN acc
    ELSE reduce_min_max(
            [minimum |-> Vec3MinOf(acc.minimum, Head(vals)),
             maximum |-> Vec3MaxOf(acc.maximum, Head(vals))],
            Tail(vals))

\* the test after the loop: a box unless a corner still holds a seed value
box_of_pair(acc) ==
    IF /\ acc.minimum[1] # F32_MAX
       /\ acc.minimum[2] # F32_MAX
       /\ acc.minimum[3] # F32_MAX
       /\ acc.maximum[1] # F32_MIN
       /\ acc.maximum[2] # F32_MIN
       /\ acc.maximum[3] # F32_MIN
    THEN Some(from_min_max(acc.minimum, acc.maximum))
    ELSE None

seed_pair == [minimum |-> VEC3_MAX, maximum |-> VEC3_MIN]

compute_aabb(vals) == box_of_pair(reduce_min_max(seed_pair, vals))

---------------------------------------------------------------------------
(* setup, main.rs 38-178: the scene. *)

joint_0 == "joint_0"
joint_1 == "joint_1"
Joints == {joint_0, joint_1}
\* commands.entity(joint_0).push_children(&[joint_1])
Parent == [j \in {joint_1} |-> joint_0]
\* the entities carrying AnimatedJoint
AnimatedJoint == {joint_1}

\* SkinnedMeshInverseBindposes: Mat4::from_translation(Vec3::new(-0.5, -1.0, 0.0)), twice
InverseBindTranslation == <<-1, -2, 0>>
inverse_bindposes ==
    <<from_translation(InverseBindTranslation), from_translation(InverseBindTranslation)>>

\* a vertex attribute of the expected format, or none
Attr(data) == [present |-> TRUE, data |-> data]
NoAttr == [present |-> FALSE, data |-> <<>>]

\* Mesh::ATTRIBUTE_POSITION
SetupPositions ==
    << <<0, 0, 0>>, <<2, 0, 0>>, <<0, 1, 0>>, <<2, 1, 0>>, <<0, 2, 0>>,
       <<2, 2, 0>>, <<0, 3, 0>>, <<2, 3, 0>>, <<0, 4, 0>>, <<2, 4, 0>> >>
\* Mesh::ATTRIBUTE_JOINT_INDEX
SetupJointIndices ==
    << <<0, 0, 0, 0>>, <<0, 0, 0, 0>>, <<0, 1, 0, 0>>, <<0, 1, 0, 0>>, <<0, 1, 0, 0>>,
       <<0, 1, 0, 0>>, <<0, 1, 0, 0>>, <<0, 1, 0, 0>>, <<0, 1, 0, 0>>, <<0, 1, 0, 0>> >>
\* Mesh::ATTRIBUTE_JOINT_WEIGHT
SetupJointWeights ==
    << <<4, 0, 0, 0>>, <<4, 0, 0, 0>>, <<3, 1, 0, 0>>, <<3, 1, 0, 0>>, <<2, 2, 0, 0>>,
       <<2, 2, 0, 0>>, <<1, 3, 0, 0>>, <<1, 3, 0, 0>>, <<0, 4, 0, 0>>, <<0, 4, 0, 0>> >>

MeshOf(p, i, w) == [loaded |-> TRUE, positions |-> p, indices |-> i, weights |-> w]
\* the mesh built by setup
SetupMesh == MeshOf(Attr(SetupPositions), Attr(SetupJointIndices), Attr(SetupJointWeights))
\* the SkinnedMesh component inserted by setup
SetupSkinnedMesh == [inverse_bindposes |-> inverse_bindposes, joints |-> <<joint_0, joint_1>>]

\* for _ in 0..10: the debug cubes, one per vertex of the setup mesh
NumDebugCubes == 10
\* PbrBundle's default Transform
SetupDebugVertexCubes == [k \in 1..NumDebugCubes |-> <<0, 0, 0>>]
\* Transform::from_xyz(0.0, 0.5, 0.0), scale one, in eighths (translation doubled)
SetupAabbDebugCube == [translation2 |-> <<0, 8, 0>>, scale |-> <<8, 8, 8>>]

---------------------------------------------------------------------------
(* Other meshes a (Handle<Mesh>, SkinnedMesh) entity may carry. *)

Take(s, n) == SubSeq(s, 1, n)
Drop(s, n) == SubSeq(s, n + 1, Len(s))

\* a handle whose mesh asset is not in Assets<Mesh>
MeshNotLoaded == [loaded |-> FALSE, positions |-> NoAttr, indices |-> NoAttr, weights |-> NoAttr]
MeshNoPositions == MeshOf(NoAttr, Attr(SetupJointIndices), Attr(SetupJointWeights))
MeshNoIndices == MeshOf(Attr(SetupPositions), NoAttr, Attr(SetupJointWeights))
MeshNoWeights == MeshOf(Attr(SetupPositions), Attr(SetupJointIndices), NoAttr)
\* ten positions and weights, four joint index entries
MeshMismatched ==
    MeshOf(Attr(SetupPositions), Attr(Take(SetupJointIndices, 4)), Attr(SetupJointWeights))
\* the three attributes present and empty
MeshEmpty == MeshOf(Attr(<<>>), Attr(<<>>), Attr(<<>>))
\* the top two vertices of the setup mesh only
MeshShort ==
    MeshOf(Attr(Drop(SetupPositions, 8)), Attr(Drop(SetupJointIndices, 8)),
           Attr(Drop(SetupJointWeights, 8)))
\* a vertex whose second joint index is past any joint matrix
MeshBadIndex ==
    MeshOf(Attr(Take(SetupPositions, 2)), Attr(<< <<0, 0, 0, 0>>, <<0, 7, 0, 0>> >>),
           Attr(Take(SetupJointWeights, 2)))

\* Assets<Mesh>::get: the mesh behind a handle
mesh_asset(h) ==
    CASE h = "setup" -> SetupMesh
      [] h = "not_loaded" -> MeshNotLoaded
      [] h = "no_positions" -> MeshNoPositions
      [] h = "no_indices" -> MeshNoIndices
      [] h = "no_weights" -> MeshNoWeights
      [] h = "mismatched" -> MeshMismatched
      [] h = "empty" -> MeshEmpty
      [] h = "short" -> MeshShort
      [] h = "bad_index" -> MeshBadIndex

MeshHandles ==
    {"setup", "not_loaded", "no_positions", "no_indices", "no_weights",
     "mismatched", "empty", "short", "bad_index"}

\* what the query yields for an entity: its mesh and its SkinnedMesh
Entity(h) == [mesh |-> mesh_asset(h), skin |-> SetupSkinnedMesh]

\* the rotations joint_animation is modelled to write: -90, 0 and 90 degrees
Angles == {-1, 0, 1}

---------------------------------------------------------------------------
(* skinned_vertex_locations, main.rs 196-264, and skin_model, 266-271. *)

RECURSIVE build_from(_, _, _, _, _)
\* the loop of SkinnedMeshJoints::build over bindposes.zip(skin_joints)
build_from(buffer, bindposes, skin_joints, hg, g) ==
    IF bindposes = <<>> \/ skin_joints = <<>> THEN Some(buffer)
    ELSE IF Head(skin_joints) \notin hg THEN None
    ELSE build_from(Append(buffer, Mat4Mul(g[Head(skin_joints)], Head(bindposes))),
                    Tail(bindposes), Tail(skin_joints), hg, g)

\* SkinnedMeshJoints::build: one matrix per joint of the binding, world
\* transform times inverse bind pose, or None when a joint has no transform
build(skin, hg, g) == build_from(<<>>, skin.inverse_bindposes, skin.joints, hg, g)

\* skin_model with the fourth influence left out
skin_model_three(joint_matrices, indexes, weights) ==
    Mat4Add(Mat4Add(Mat4Scale(weights[1], joint_matrices[indexes[1] + 1]),
                    Mat4Scale(weights[2], joint_matrices[indexes[2] + 1])),
            Mat4Scale(weights[3], joint_matrices[indexes[3] + 1]))

skin_model(joint_matrices, indexes, weights) ==
    Mat4Add(Mat4Add(Mat4Scale(weights[1], joint_matrices[indexes[1] + 1]),
                    Mat4Scale(weights[2], joint_matrices[indexes[2] + 1])),
            Mat4Add(Mat4Scale(weights[3], joint_matrices[indexes[3] + 1]),
                    Mat4Scale(weights[4], joint_matrices[indexes[4] + 1])))

\* joint_matrices[indexes[k] as usize] panics when an index is out of bounds
indexes_in_bounds(joint_matrices, indexes) ==
    \A k \in 1..4 : indexes[k] < Len(joint_matrices)

\* the closure of the map at 242-245
ws_position(joint_matrices, pos, indexes, weights) ==
    transform_point3(skin_model(joint_matrices, indexes, weights), pos)

RECURSIVE ws_positions(_, _, _, _)
\* mesh_positions.iter().zip(mesh_indices).zip(mesh_weights).map(..).collect()
ws_positions(joint_matrices, positions, indices, weights) ==
    IF positions = <<>> \/ indices = <<>> \/ weights = <<>> THEN <<>>
    ELSE <<ws_position(joint_matrices, Head(positions), Head(indices), Head(weights))>>
         \o ws_positions(joint_matrices, Tail(positions), Tail(indices), Tail(weights))

\* iter().zip(..).zip(..) stops at the shortest of the three
zip_len(mesh) ==
    Min2(Len(mesh.positions.data), Min2(Len(mesh.indices.data), Len(mesh.weights.data)))

\* debug_vertex_cubes.iter_mut().zip(&ws_positions)
write_cubes(cubes, ws) ==
    [k \in 1..Len(cubes) |-> IF k <= Len(ws) THEN ws[k] ELSE cubes[k]]

\* the state carried through the loop, with what happened to the last entity
Step(s, outcome, stage, n) == [s EXCEPT !.outcome = outcome, !.stage = stage, !.n = n]

\* lines 237-260: the entity's joint matrices are built
skin_with(s, e, joint_matrices) ==
    IF \E k \in 1..zip_len(e.mesh) :
          ~indexes_in_bounds(joint_matrices, e.mesh.indices.data[k])
    THEN [Step(s, "panicked", "blend", 0) EXCEPT !.panicked = "index_out_of_bounds"]
    ELSE
    LET ws == ws_positions(joint_matrices, e.mesh.positions.data, e.mesh.indices.data,
                           e.mesh.weights.data)
        box == compute_aabb(ws)
    IN
    IF box.tag = "none"
    THEN [Step(s, "panicked", "aabb", Len(ws)) EXCEPT
            !.cubes = write_cubes(s.cubes, ws),
            !.history = [s.history EXCEPT !.last_n = Len(ws), !.last_aabb = FALSE],
            !.panicked = "unwrap_none"]
    ELSE [Step(s, "skinned", "done", Len(ws)) EXCEPT
            !.cubes = write_cubes(s.cubes, ws),
            !.aabb = [translation2 |-> box.val.center2, scale |-> box.val.half_extents2],
            !.history = [s.history EXCEPT !.last_n = Len(ws), !.last_aabb = TRUE,
                                          !.skinned_once = TRUE]]

\* the body of the loop with the result of build ignored: a joint without
\* a transform is given the identity
skin_entity_no_joint_check(s, e, hg, g) ==
    IF s.panicked # "no" THEN Step(s, "not_reached", "none", 0)
    ELSE IF ~e.mesh.loaded THEN Step(s, "skipped", "mesh", 0)
    ELSE IF ~e.mesh.positions.present THEN Step(s, "skipped", "attributes", 0)
    ELSE IF ~e.mesh.indices.present THEN Step(s, "skipped", "attributes", 0)
    ELSE IF ~e.mesh.weights.present THEN Step(s, "skipped", "attributes", 0)
    ELSE skin_with(s, e,
            build(e.skin, Joints,
                  [j \in Joints |-> IF j \in hg THEN g[j] ELSE Mat4Identity]).val)

\* the body of the loop at 204-263 for one entity; s is the state so far
skin_entity(s, e, hg, g) ==
    IF s.panicked # "no" THEN Step(s, "not_reached", "none", 0)
    ELSE IF ~e.mesh.loaded THEN Step(s, "skipped", "mesh", 0)
    ELSE IF ~e.mesh.positions.present THEN Step(s, "skipped", "attributes", 0)
    ELSE IF ~e.mesh.indices.present THEN Step(s, "skipped", "attributes", 0)
    ELSE IF ~e.mesh.weights.present THEN Step(s, "skipped", "attributes", 0)
    ELSE
    LET built == build(e.skin, hg, g) IN
    IF built.tag = "none"
    THEN [Step(s, "skipped", "joints", 0) EXCEPT !.history.joint_skip_once = TRUE]
    ELSE skin_with(s, e, built.val)

\* what the run did to one entity: how its pass through the loop ended, at
\* which step, with how many world-space positions, whether every joint of
\* its binding had a transform, and whether it changed a debug transform
LogEntry(before, after, e, hg) ==
    [outcome |-> after.outcome, stage |-> after.stage, n |-> after.n,
     joints_ok |-> \A i \in 1..Len(e.skin.joints) : e.skin.joints[i] \in hg,
     changed |-> after.cubes # before.cubes \/ after.aabb # before.aabb]

skin_logged(s, t, e, hg) == [t EXCEPT !.log = Append(s.log, LogEntry(s, t, e, hg))]

RECURSIVE skin_all(_, _, _, _)
\* for (mesh_h, skinned_mesh) in query.iter()
skin_all(s, es, hg, g) ==
    IF es = <<>> THEN s
    ELSE skin_all(skin_logged(s, skin_entity(s, Entity(Head(es)), hg, g),
                              Entity(Head(es)), hg),
                  Tail(es), hg, g)

---------------------------------------------------------------------------
(* The frame: main, 21-29.  joint_animation and skinned_vertex_locations   *)
(* are added to the Update stage with no ordering between them; the        *)
(* transform propagation of DefaultPlugins runs in the later PostUpdate    *)
(* stage of the same frame.                                                *)

\* Transform of a joint: no translation, unit scale, the rotation written
\* by joint_animation
local_matrix(q) == from_rotation_z(q)

\* GlobalTransform of joint j as the propagation derives it from the locals
world_of(loc, j) ==
    IF j \in DOMAIN Parent
    THEN Mat4Mul(local_matrix(loc[Parent[j]]), local_matrix(loc[j]))
    ELSE local_matrix(loc[j])

\* the state after setup and the startup stages
InitFrames ==
    /\ \E n \in 1..MaxMeshes :
         meshes \in [1..n -> MeshHandles]
    /\ local = [j \in Joints |-> 0]
    /\ global = [j \in Joints |-> Mat4Identity]
    /\ has_global = Joints
    /\ ran = {}
    /\ debug_vertex_cubes = SetupDebugVertexCubes
    /\ aabb_debug_cube = SetupAabbDebugCube
    /\ panicked = "no"
    /\ log = <<>>
    /\ read_global = [j \in Joints |-> Mat4Identity]
    /\ history = [last_n |-> 0, last_aabb |-> FALSE, skinned_once |-> FALSE,
                  joint_skip_once |-> FALSE]

joint_animation ==
    /\ panicked = "no"
    /\ "joint_animation" \notin ran
    /\ \E q \in Angles :
         local' = [j \in Joints |-> IF j \in AnimatedJoint THEN q ELSE local[j]]
    /\ ran' = ran \cup {"joint_animation"}
    /\ UNCHANGED <<meshes, global, has_global, debug_vertex_cubes, aabb_debug_cube,
                   panicked, log, read_global, history>>

skinned_vertex_locations ==
    /\ panicked = "no"
    /\ "skinned_vertex_locations" \notin ran
    /\ \E s \in {skin_all([cubes |-> debug_vertex_cubes, aabb |-> aabb_debug_cube,
                            panicked |-> "no", history |-> history, log |-> <<>>,
                            outcome |-> "none", stage |-> "none", n |-> 0],
                           meshes, has_global, global)} :
          /\ debug_vertex_cubes' = s.cubes
          /\ aabb_debug_cube' = s.aabb
          /\ panicked' = s.panicked
          /\ log' = s.log
          /\ history' = s.history
    /\ read_global' = global
    /\ ran' = ran \cup {"skinned_vertex_locations"}
    /\ UNCHANGED <<meshes, local, global, has_global>>

\* PostUpdate: every joint that has a GlobalTransform gets its world transform
transform_propagate ==
    /\ panicked = "no"
    /\ ran = {"joint_animation", "skinned_vertex_locations"}
    /\ global' = [j \in Joints |-> IF j \in has_global THEN world_of(local, j) ELSE global[j]]
    /\ ran' = {}
    /\ UNCHANGED <<meshes, local, has_global, debug_vertex_cubes, aabb_debug_cube,
                   panicked, log, read_global, history>>

\* between two frames a joint loses its GlobalTransform
RemoveJointTransform ==
    /\ panicked = "no"
    /\ ran = {}
    /\ \E j \in has_global : has_global' = has_global \ {j}
    /\ UNCHANGED <<meshes, local, global, ran, debug_vertex_cubes, aabb_debug_cube,
                   panicked, log, read_global, history>>

\* between two frames a joint gets its GlobalTransform back
RestoreJointTransform ==
    /\ panicked = "no"
    /\ ran = {}
    /\ \E j \in Joints \ has_global :
         /\ has_global' = has_global \cup {j}
         /\ global' = [global EXCEPT ![j] = world_of(local, j)]
    /\ UNCHANGED <<meshes, local, ran, debug_vertex_cubes, aabb_debug_cube,
                   panicked, log, read_global, history>>

\* variables of the pure-function specifications, unused by the frames
IdleAabb == values = <<>> /\ result = NotRun
IdleBlend == vertex = <<>> /\ blended = NotRun

Init == InitFrames /\ IdleAabb /\ IdleBlend

Next ==
    \/ joint_animation /\ UNCHANGED <<aabb_vars, blend_vars>>
    \/ skinned_vertex_locations /\ UNCHANGED <<aabb_vars, blend_vars>>
    \/ transform_propagate /\ UNCHANGED <<aabb_vars, blend_vars>>
    \/ RemoveJointTransform /\ UNCHANGED <<aabb_vars, blend_vars>>
    \/ RestoreJointTransform /\ UNCHANGED <<aabb_vars, blend_vars>>

Spec == Init /\ [][Next]_vars

---------------------------------------------------------------------------
(* compute_aabb on its own: any position sequence up to MaxLen, with       *)
(* coordinates that include the two seed values.                           *)

\* the scene with no skinned mesh, for the specifications of the pure functions
IdleFrames ==
    /\ meshes = <<>>
    /\ local = [j \in Joints |-> 0]
    /\ global = [j \in Joints |-> Mat4Identity]
    /\ has_global = Joints
    /\ ran = {}
    /\ debug_vertex_cubes = SetupDebugVertexCubes
    /\ aabb_debug_cube = SetupAabbDebugCube
    /\ panicked = "no"
    /\ log = <<>>
    /\ read_global = [j \in Joints |-> Mat4Identity]
    /\ history = [last_n |-> 0, last_aabb |-> FALSE, skinned_once |-> FALSE,
                  joint_skip_once |-> FALSE]

\* two ordinary values and the two seed values on x, one ordinary value and
\* the two seed values on y and z
Coords == {F32_MIN, 0, 1, F32_MAX}
SeedCoords == {F32_MIN, 0, F32_MAX}
Points == {<<x, y, z>> : x \in Coords, y \in SeedCoords, z \in SeedCoords}

InitAabb == IdleFrames /\ IdleAabb /\ IdleBlend

PushValue ==
    /\ result.tag = "not_run"
    /\ Len(values) < MaxLen
    /\ \E p \in Points : values' = Append(values, p)
    /\ UNCHANGED result

RunComputeAabb ==
    /\ result.tag = "not_run"
    /\ result' = compute_aabb(values)
    /\ UNCHANGED values

NextAabb ==
    \/ PushValue /\ UNCHANGED <<frame_vars, blend_vars>>
    \/ RunComputeAabb /\ UNCHANGED <<frame_vars, blend_vars>>

SpecAabb == InitAabb /\ [][NextAabb]_vars

---------------------------------------------------------------------------
(* The per-vertex blend on its own: one vertex with any joint indices of   *)
(* the binding and any weights up to MaxWeight quarters, skinned with the  *)
(* joint matrices of the setup binding under any modelled joint rotations. *)

\* largest joint weight of a vertex, in quarters
MaxWeight == 4

BlendPositions == {<<0, 0, 0>>, <<2, 1, 0>>, <<1, 4, 3>>}
BlendIndices == {<<a, b, c, d>> : a \in 0..1, b \in 0..1, c \in 0..1, d \in 0..1}
BlendWeights ==
    {<<a, b, c, d>> : a \in 0..MaxWeight, b \in 0..MaxWeight, c \in 0..MaxWeight,
                      d \in 0..MaxWeight}

InitBlend ==
    /\ meshes = <<>>
    /\ local \in [Joints -> Angles]
    /\ local[joint_0] = 0
    /\ global = [j \in Joints |-> world_of(local, j)]
    /\ has_global = Joints
    /\ ran = {}
    /\ debug_vertex_cubes = SetupDebugVertexCubes
    /\ aabb_debug_cube = SetupAabbDebugCube
    /\ panicked = "no"
    /\ log = <<>>
    /\ read_global = [j \in Joints |-> Mat4Identity]
    /\ history = [last_n |-> 0, last_aabb |-> FALSE, skinned_once |-> FALSE,
                  joint_skip_once |-> FALSE]
    /\ IdleAabb
    /\ \E p \in BlendPositions, i \in BlendIndices, w \in BlendWeights :
         vertex = <<[pos |-> p, indexes |-> i, weights |-> w]>>
    /\ blended = NotRun

\* the joint matrices skinned_vertex_locations builds for the setup binding
setup_joint_matrices == build(SetupSkinnedMesh, has_global, global).val

RunBlend ==
    /\ blended.tag = "not_run"
    /\ blended' = Some(ws_position(setup_joint_matrices, vertex[1].pos,
                                   vertex[1].indexes, vertex[1].weights))
    /\ UNCHANGED vertex

NextBlend ==
    \/ RunBlend /\ UNCHANGED <<frame_vars, aabb_vars>>

SpecBlend == InitBlend /\ [][NextBlend]_vars

---------------------------------------------------------------------------
(* Claims about compute_aabb, under SpecAabb. *)

SetMin(S) == CHOOSE x \in S : \A y \in S : x <= y
SetMax(S) == CHOOSE x \in S : \A y \in S : x >= y
\* the component-wise extremes of a non-empty sequence, taken axis by axis
TrueMin(vals) == [c \in 1..3 |-> SetMin({vals[k][c] : k \in 1..Len(vals)})]
TrueMax(vals) == [c \in 1..3 |-> SetMax({vals[k][c] : k \in 1..Len(vals)})]
\* the corners of a box, doubled
BoxMin2(box) == Vec3Sub(box.center2, box.half_extents2)
BoxMax2(box) == Vec3Add(box.center2, box.half_extents2)

\* C1: for every non-empty position sequence compute_aabb returns a box, and
\* its corners are the component-wise minimum and maximum of the positions,
\* also when a coordinate equals f32::MAX or f32::MIN.
C1_NonEmptyGivesMinimalBox ==
    (result.tag # "not_run" /\ values # <<>>) =>
        /\ result.tag = "some"
        /\ \A c \in 1..3 :
             /\ BoxMin2(result.val)[c] = 2 * TrueMin(values)[c]
             /\ BoxMax2(result.val)[c] = 2 * TrueMax(values)[c]

\* the orders of a sequence
Orders(n) == {f \in [1..n -> 1..n] : \A a, b \in 1..n : f[a] = f[b] => a = b}
Reordered(vals, f) == [k \in 1..Len(vals) |-> vals[f[k]]]
\* merging two partial (min, max) pairs
merge_pairs(a, b) ==
    [minimum |-> Vec3MinOf(a.minimum, b.minimum),
     maximum |-> Vec3MaxOf(a.maximum, b.maximum)]

\* C9: compute_aabb gives the same result (no box, or the same box) for
\* every order of its input, and reducing two parts of the input separately
\* and merging the two (min, max) pairs gives the result of the single pass.
C9_OrderIndependent ==
    result.tag # "not_run" =>
        \A f \in Orders(Len(values)) :
            LET vals == Reordered(values, f) IN
            /\ compute_aabb(vals) = result
            /\ \A cut \in 0..Len(vals) :
                 box_of_pair(merge_pairs(
                     reduce_min_max(seed_pair, SubSeq(vals, 1, cut)),
                     reduce_min_max(seed_pair, SubSeq(vals, cut + 1, Len(vals)))))
                 = result

\* a box was computed from two different positions
C9_Witness ==
    /\ result.tag = "some"
    /\ Len(values) >= 2
    /\ values[1] # values[2]
    /\ result.val.half_extents2 # <<0, 0, 0>>

---------------------------------------------------------------------------
(* Claims about the per-vertex blend, under SpecBlend. *)

WeightSum(w) == w[1] + w[2] + w[3] + w[4]
BlendRan == blended.tag = "some"
JointsAtIdentity == \A j \in Joints : global[j] = Mat4Identity

\* C7 as stated: with weights summing to 1 and every joint transform the
\* identity, the blended world position is the bind-pose position.
C7_IdentityInvariance ==
    (BlendRan /\ WeightSum(vertex[1].weights) = WeightOne /\ JointsAtIdentity) =>
        blended.val = Vec3Scale(WeightOne, vertex[1].pos)

\* C7 amended: with weights summing to 1 and every joint transform the
\* identity, the blended world position is the bind-pose position moved by
\* the translation of the inverse bind poses of setup, (-0.5, -1.0, 0.0).
C7_IdentityGivesInverseBindOffset ==
    (BlendRan /\ WeightSum(vertex[1].weights) = WeightOne /\ JointsAtIdentity) =>
        blended.val = Vec3Scale(WeightOne, Vec3Add(vertex[1].pos, InverseBindTranslation))

\* a vertex influenced by both joints, weights summing to 1, joints at identity
C7_Witness ==
    /\ BlendRan
    /\ JointsAtIdentity
    /\ WeightSum(vertex[1].weights) = WeightOne
    /\ vertex[1].weights[1] > 0 /\ vertex[1].weights[2] > 0
    /\ vertex[1].indexes[1] # vertex[1].indexes[2]
    /\ vertex[1].pos # <<0, 0, 0>>

\* C8: blending the matrices and applying the blend once gives the sum over
\* the four influences of weight times (joint matrix applied to the
\* position), with the weights as given, whatever their sum.
C8_BlendThenApplyIsWeightedSum ==
    BlendRan =>
        LET v == vertex[1]
            term(k) == Vec3Scale(v.weights[k],
                                 transform_point3(setup_joint_matrices[v.indexes[k] + 1],
                                                  v.pos))
        IN blended.val = Vec3Add(Vec3Add(term(1), term(2)), Vec3Add(term(3), term(4)))

\* four non-zero weights that do not sum to 1, two joints, joint_1 rotated
C8_Witness ==
    /\ BlendRan
    /\ WeightSum(vertex[1].weights) # WeightOne
    /\ \A k \in 1..4 : vertex[1].weights[k] > 0
    /\ vertex[1].indexes[1] # vertex[1].indexes[4]
    /\ global[joint_1] # Mat4Identity

---------------------------------------------------------------------------
(* Claims about the frames, under Spec. *)

Logged == 1..Len(log)
MeshAt(i) == mesh_asset(meshes[i])
UpdateStageDone == ran = {"joint_animation", "skinned_vertex_locations"}

\* C2: a mesh that cannot be skinned or bounded never terminates the process
\* and never keeps skinned_vertex_locations from the remaining meshes of the
\* frame.
C2_ErrorsAreLocal ==
    /\ panicked = "no"
    /\ \A i \in Logged : log[i].outcome \notin {"panicked", "not_reached"}

\* C3: compute_aabb of the empty sequence is None, and a mesh that reaches
\* the AABB reduction with zero world-space positions is passed over for the
\* frame: no panic, no box used.
C3_EmptyIsNoBoxThisFrame ==
    /\ compute_aabb(<<>>) = None
    /\ \A i \in Logged :
         (log[i].stage \in {"aabb", "done"} /\ log[i].n = 0) =>
             (log[i].outcome = "skipped" /\ ~log[i].changed)

\* C4: the world transforms skinned_vertex_locations reads in a frame are the
\* ones derived from the local transforms joint_animation wrote in that frame.
C4_ReadsThisFramesTransforms ==
    UpdateStageDone =>
        \A j \in has_global : read_global[j] = world_of(local, j)

\* a mesh lacking a required attribute, or whose three arrays differ in length
Defective(mesh) ==
    /\ mesh.loaded
    /\ \/ ~mesh.positions.present \/ ~mesh.indices.present \/ ~mesh.weights.present
       \/ Len(mesh.positions.data) # Len(mesh.indices.data)
       \/ Len(mesh.positions.data) # Len(mesh.weights.data)

\* C5: a mesh lacking one of the three attribute arrays, or with arrays of
\* different lengths, is skipped: no world-space position, no debug cube and
\* no AABB cube transform comes from it.
C5_DefectiveMeshSkipped ==
    \A i \in Logged :
        (Defective(MeshAt(i)) /\ log[i].outcome # "not_reached") =>
            (log[i].outcome = "skipped" /\ log[i].n = 0 /\ ~log[i].changed)

\* C6: a mesh whose binding names a joint without a world transform is not
\* skinned in that frame: no position is computed and the debug cubes and the
\* AABB cube are left as they were; with every joint transform available the
\* setup mesh is skinned in full.
C6_MissingJointAborts ==
    \A i \in Logged :
        /\ ~log[i].joints_ok =>
              (log[i].outcome \in {"skipped", "not_reached"} /\ log[i].n = 0
               /\ ~log[i].changed)
        /\ (log[i].joints_ok /\ meshes[i] = "setup" /\ log[i].outcome # "not_reached") =>
              (log[i].outcome = "skinned" /\ log[i].n = Len(SetupPositions))

\* the setup mesh is skinned, in a rotated pose, after a frame that skipped a
\* mesh for a missing joint transform
C6_Witness ==
    /\ history.joint_skip_once
    /\ has_global = Joints
    /\ \E i \in Logged :
         meshes[i] = "setup" /\ log[i].joints_ok /\ log[i].outcome = "skinned"
         /\ log[i].changed
    /\ read_global[joint_1] # Mat4Identity

\* every debug cube lies in the box of the AABB debug cube, translation plus
\* or minus half the scale on each axis (coordinates doubled)
CubesInsideAabbCube ==
    \A k \in 1..Len(debug_vertex_cubes) : \A c \in 1..3 :
        /\ 2 * debug_vertex_cubes[k][c] >= aabb_debug_cube.translation2[c] - aabb_debug_cube.scale[c]
        /\ 2 * debug_vertex_cubes[k][c] <= aabb_debug_cube.translation2[c] + aabb_debug_cube.scale[c]

\* C10 as stated: once a frame has skinned a mesh, every debug cube lies in
\* the box of the AABB debug cube, whatever the number of vertices and meshes
\* (taken here for the worlds whose meshes all carry the three attribute
\* arrays at one length, so that no defective mesh is involved).
C10_CubesInsideOnceSkinned ==
    (history.skinned_once /\ \A i \in 1..Len(meshes) : ~Defective(MeshAt(i))) =>
        CubesInsideAabbCube

\* C10 amended: once a frame has skinned a mesh, every debug cube lies in the
\* box of the AABB debug cube provided the mesh that last wrote the debug
\* cubes had at least as many skinned vertices as there are debug cubes and
\* wrote the AABB cube too.
C10_CubesInsideAfterFullWrite ==
    (history.skinned_once /\ history.last_aabb /\ history.last_n >= NumDebugCubes) =>
        CubesInsideAabbCube

\* two meshes, the last one skinned in a rotated pose after a frame in which
\* a mesh was skipped
C10_Witness ==
    /\ history.skinned_once /\ history.last_aabb /\ history.last_n >= NumDebugCubes
    /\ Len(meshes) = 2
    /\ history.joint_skip_once
    /\ debug_vertex_cubes # SetupDebugVertexCubes
    /\ read_global[joint_1] # Mat4Identity
    /\ \E i \in Logged : log[i].outcome = "skinned" /\ log[i].changed

===========================================================================
